---- MODULE Spec2Model ----
(***************************************************************************)
(* Model of app/rss_bridge.py: the native-messaging bridge between the     *)
(* HTTP API (RSSHandler, served by one HTTP_Thread) and the framed stream  *)
(* on stdin/stdout (main loop).                                            *)
(*                                                                         *)
(* Threads: the main thread runs the inbound loop of main(); the single    *)
(* HTTP_Thread runs HTTPServer.serve_forever, which handles one request at *)
(* a time.  Each handler is split at the points where it touches shared    *)
(* state (BridgeState under its lock, the Event flags, sys.stdout.buffer). *)
(***************************************************************************)
EXTENDS Integers, Sequences, FiniteSets

(* ---------------------------------------------------------------- bounds *)
NumRequests == 2      \* HTTP requests that arrive during a run
MaxId == 2            \* item ids / folder paths are 1..MaxId
MaxData == 1          \* payload values are 0..MaxData
MaxInbound == 2       \* frames the peer puts on stdin during a run

Requests == 1..NumRequests
Ids == 1..MaxId
NoId == 0             \* query parameter missing or empty
Data == 0..MaxData    \* 0 is the falsy value of the kind (False, None, [])

KeyedKinds == {"markAsRead", "getSingleItem", "getFolderItems"}
Kinds == KeyedKinds \cup {"getUnreadRSS"}

VARIABLES
    latest_rss_data,      \* BridgeState.latest_rss_data["unread_items"]
    data_update_event,    \* BridgeState.data_update_event flag
    mark_read_results,    \* BridgeState.mark_read_results
    single_item_results,  \* BridgeState.single_item_results
    folder_results,       \* BridgeState.folder_results
    event,                \* flag of the threading.Event created by request h
    stdout,               \* chunks written to sys.stdout.buffer, in order, from
                          \* the end of the last whole frame on
    stdout_open,          \* the peer still holds the other end of stdout
    delivered,            \* history: the requests whose send_message did not raise
    pc,                   \* position of the handler of request h
    req,                  \* what request h asks for
    resp,                 \* what the handler of request h answered (with history:
                          \* the origin of the data, the updates stored so far)
    rpc,                  \* position of the main loop
    rframe,               \* frame the main loop is sending
    nIn,                  \* inbound frames read so far
    rssHist,              \* history: payloads of the rssData messages stored
    fired,                \* history: update that fired the signal for h
    heard,                \* history: results of h's kind processed while h waited
    signalled,            \* history: the result stored by the call that set h's Event
    last_in,              \* history: type of the frame read last
    last_id,              \* history: key carried by the frame read last
    last_hit,             \* history: the frame read last found a waiter under its key
    answered              \* history: the requests the peer has answered

state == <<latest_rss_data, data_update_event, mark_read_results,
           single_item_results, folder_results, event>>
hist == <<rssHist, fired, heard, signalled, last_in, last_id, last_hit, answered>>
channel == <<stdout, stdout_open, delivered>>
vars == <<state, channel, pc, req, resp, rpc, rframe, nIn, hist>>

(* ---------------------------------------------------------------- frames *)
ActionFrame(kind, id) == [tag |-> "action", val |-> kind, id |-> id]
status_sent_as_literal(s) == [tag |-> "literal", val |-> s, id |-> NoId]
StatusFrame(s) == [tag |-> "status", val |-> s, id |-> NoId]
literal_sent_as_status(s) == [tag |-> "status", val |-> s, id |-> NoId]
LiteralFrame(s) == [tag |-> "literal", val |-> s, id |-> NoId]
NoFrame == [tag |-> "none", val |-> "", id |-> NoId]

\* send_message writes the length prefix and the payload in two calls
PrefixChunk(f) == [part |-> "len", frame |-> f]
PayloadChunk(f) == [part |-> "body", frame |-> f]

\* The peer takes a frame off the stream as soon as it is whole: a prefix
\* directly followed by the payload it counts.  A chunk that does not continue
\* a frame (a second prefix, a payload of another frame) tears the stream: the
\* peer has lost the frame boundaries and nothing written later restores them,
\* so the stream is kept as it was torn.
Torn(s) == Len(s) >= 2 \/ (Len(s) = 1 /\ s[1].part # "len")
Write(s, chunk) ==
    IF Torn(s) THEN s
    ELSE IF s # <<>> /\ chunk.part = "body" /\ chunk.frame = s[1].frame THEN <<>>
    ELSE Append(s, chunk)

(* ------------------------------------------------- BridgeState (pure part) *)
\* history tag of a stored value: what wrote it (the placeholder of a
\* registration, a reply, the snapshot), the request the peer was answering (re,
\* a set of at most one request) and the key the message carried
Placeholder == [by |-> "placeholder", re |-> {}, key |-> NoId]

Has(tbl, key) == key \in DOMAIN tbl
Put(tbl, key, entry) == [k \in DOMAIN tbl \cup {key} |-> IF k = key THEN entry ELSE tbl[k]]
Del(tbl, key) == [k \in DOMAIN tbl \ {key} |-> tbl[k]]
EmptyTable == [k \in {} |-> 0]

\* register_*_request: a fresh Event (the one of request h) and the placeholder
register_mark_read_request(tbl, item_id, h) ==
    Put(tbl, item_id, [event |-> h, data |-> 0, src |-> Placeholder])
register_single_item_request(tbl, item_id, h) ==
    Put(tbl, item_id, [event |-> h, data |-> 0, src |-> Placeholder])
register_folder_request(tbl, folder_path, h) ==
    Put(tbl, folder_path, [event |-> h, data |-> 0, src |-> Placeholder])

\* complete_*_request: the table after the call (unchanged when the key is absent)
complete_mark_read_request(tbl, item_id, success, src) ==
    IF Has(tbl, item_id)
    THEN [tbl EXCEPT ![item_id].data = success, ![item_id].src = src]
    ELSE tbl
complete_ignores_item_id(tbl, item_id, data, src) ==
    [k \in DOMAIN tbl |-> [tbl[k] EXCEPT !.data = data, !.src = src]]
complete_single_item_request(tbl, item_id, data, src) ==
    IF Has(tbl, item_id)
    THEN [tbl EXCEPT ![item_id].data = data, ![item_id].src = src]
    ELSE tbl
complete_without_waiter(tbl, folder_path, data, src) ==
    Put(tbl, folder_path, [event |-> NoId, data |-> data, src |-> src])
complete_folder_request(tbl, folder_path, data, src) ==
    IF Has(tbl, folder_path)
    THEN [tbl EXCEPT ![folder_path].data = data, ![folder_path].src = src]
    ELSE tbl

\* the Events complete_*_request sets: the one stored under the key, if any
CompletedEvents(tbl, key) == IF Has(tbl, key) THEN {tbl[key].event} ELSE {}

\* get_*_result: the value returned (the default when the key is absent) ...
get_mark_read_result(tbl, item_id) ==
    IF Has(tbl, item_id) THEN [data |-> tbl[item_id].data, src |-> tbl[item_id].src]
    ELSE [data |-> 0, src |-> Placeholder]
get_single_item_result(tbl, item_id) ==
    IF Has(tbl, item_id) THEN [data |-> tbl[item_id].data, src |-> tbl[item_id].src]
    ELSE [data |-> 0, src |-> Placeholder]
get_folder_result(tbl, folder_path) ==
    IF Has(tbl, folder_path) THEN [data |-> tbl[folder_path].data, src |-> tbl[folder_path].src]
    ELSE [data |-> 0, src |-> Placeholder]
\* ... and the table it leaves (del under the same lock)
take_keeps_entry(tbl, key) == tbl
TakeEntry(tbl, key) == IF Has(tbl, key) THEN Del(tbl, key) ELSE tbl

\* cleanup_*_request
cleanup_forgets_del(tbl, item_id) == tbl
cleanup_mark_read_request(tbl, item_id) == IF Has(tbl, item_id) THEN Del(tbl, item_id) ELSE tbl
cleanup_single_item_request(tbl, item_id) == IF Has(tbl, item_id) THEN Del(tbl, item_id) ELSE tbl
cleanup_folder_request(tbl, folder_path) == IF Has(tbl, folder_path) THEN Del(tbl, folder_path) ELSE tbl

\* the table of a keyed kind
Table(kind) ==
    CASE kind = "markAsRead" -> mark_read_results
      [] kind = "getSingleItem" -> single_item_results
      [] kind = "getFolderItems" -> folder_results

(* ------------------------------------------------------------------ Init *)
NoRequest == [kind |-> "none", id |-> NoId]
NoResponse == [status |-> "none", code |-> 0, outcome |-> "none", data |-> 0, src |-> Placeholder, seq |-> 0]
Response(status, code, outcome, data, src) ==
    [status |-> status, code |-> code, outcome |-> outcome, data |-> data, src |-> src,
     seq |-> Len(rssHist)]

Init ==
    /\ latest_rss_data = 0
    /\ data_update_event = FALSE
    /\ mark_read_results = EmptyTable
    /\ single_item_results = EmptyTable
    /\ folder_results = EmptyTable
    /\ event = [h \in Requests |-> FALSE]
    /\ stdout = <<>>
    /\ stdout_open = TRUE
    /\ delivered = {}
    /\ pc = [h \in Requests |-> "idle"]
    /\ req = [h \in Requests |-> NoRequest]
    /\ resp = [h \in Requests |-> NoResponse]
    /\ rpc = "read"
    /\ rframe = NoFrame
    /\ nIn = 0
    /\ rssHist = <<>>
    /\ fired = [h \in Requests |-> 0]
    /\ heard = [h \in Requests |-> {}]
    /\ signalled = [h \in Requests |-> {}]
    /\ last_in = "none"
    /\ last_id = NoId
    /\ last_hit = FALSE
    /\ answered = {}

(* ----------------------------------------------------------- HTTP_Thread *)
InDispatch(h) == pc[h] \notin {"idle", "done"}
Exited == rpc = "exited"    \* main() returned: the daemon HTTP_Thread dies with it

\* HTTPServer.serve_forever handles one request at a time: the next request is
\* taken only when the handler of the previous one has returned.  Requests are
\* numbered in the order the server takes them.
ServerFree == \A g \in Requests : ~InDispatch(g)
NextInLine(h) == pc[h] = "idle" /\ \A g \in Requests : g < h => pc[g] # "idle"
CanStart(h) == NextInLine(h) /\ ServerFree

BadRequest == Response("error", 400, "bad_request", 0, Placeholder)
TimedOut == Response("error", 504, "timeout", 0, Placeholder)

\* a handler that returns at once because its query parameter is missing
RejectRequest(h, kind) ==
    /\ req' = [req EXCEPT ![h] = [kind |-> kind, id |-> NoId]]
    /\ resp' = [resp EXCEPT ![h] = BadRequest]
    /\ pc' = [pc EXCEPT ![h] = "done"]
    /\ UNCHANGED <<state, channel, rpc, rframe, nIn, hist>>

\* the common part of a keyed handler's first step, after register_*_request
BeginKeyed(h, kind, id) ==
    /\ req' = [req EXCEPT ![h] = [kind |-> kind, id |-> id]]
    /\ event' = [event EXCEPT ![h] = FALSE]
    /\ pc' = [pc EXCEPT ![h] = "send_len"]
    /\ UNCHANGED <<latest_rss_data, data_update_event, channel, resp, rpc, rframe, nIn, hist>>

handle_mark_read(h) ==
    /\ ~Exited /\ CanStart(h)
    /\ \E item_id \in Ids \cup {NoId} :
        IF item_id = NoId THEN RejectRequest(h, "markAsRead")
        ELSE /\ mark_read_results' = register_mark_read_request(mark_read_results, item_id, h)
             /\ BeginKeyed(h, "markAsRead", item_id)
             /\ UNCHANGED <<single_item_results, folder_results>>

handle_get_item(h) ==
    /\ ~Exited /\ CanStart(h)
    /\ \E item_id \in Ids \cup {NoId} :
        IF item_id = NoId THEN RejectRequest(h, "getSingleItem")
        ELSE /\ single_item_results' = register_single_item_request(single_item_results, item_id, h)
             /\ BeginKeyed(h, "getSingleItem", item_id)
             /\ UNCHANGED <<mark_read_results, folder_results>>

handle_get_folder(h) ==
    /\ ~Exited /\ CanStart(h)
    /\ \E folder_path \in Ids \cup {NoId} :
        IF folder_path = NoId THEN RejectRequest(h, "getFolderItems")
        ELSE /\ folder_results' = register_folder_request(folder_results, folder_path, h)
             /\ BeginKeyed(h, "getFolderItems", folder_path)
             /\ UNCHANGED <<mark_read_results, single_item_results>>

\* data_update_event.clear() of handle_get_unread
event_not_cleared(flag) == flag
ClearedEvent(flag) == FALSE

handle_get_unread(h) ==
    /\ ~Exited /\ CanStart(h)
    /\ data_update_event' = ClearedEvent(data_update_event)
    /\ req' = [req EXCEPT ![h] = [kind |-> "getUnreadRSS", id |-> NoId]]
    /\ pc' = [pc EXCEPT ![h] = "send_len"]
    /\ UNCHANGED <<latest_rss_data, mark_read_results, single_item_results,
                   folder_results, event, channel, resp, rpc, rframe, nIn, hist>>

\* a write to sys.stdout.buffer raises once the peer has closed its end; the
\* except clause of send_message logs the error and send_message returns
WriteRaises == ~stdout_open

\* send_message of a handler: sys.stdout.buffer.write(encoded_length) ...
SendPrefix(h) ==
    /\ ~Exited /\ pc[h] = "send_len"
    /\ IF WriteRaises
       THEN /\ stdout' = stdout
            /\ pc' = [pc EXCEPT ![h] = "wait"]
       ELSE /\ stdout' = Write(stdout, PrefixChunk(ActionFrame(req[h].kind, req[h].id)))
            /\ pc' = [pc EXCEPT ![h] = "send_body"]
    /\ UNCHANGED <<state, stdout_open, delivered, req, resp, rpc, rframe, nIn, hist>>

\* ... then sys.stdout.buffer.write(encoded_content) and flush
SendPayload(h) ==
    /\ ~Exited /\ pc[h] = "send_body"
    /\ IF WriteRaises
       THEN UNCHANGED <<stdout, delivered>>
       ELSE /\ stdout' = Write(stdout, PayloadChunk(ActionFrame(req[h].kind, req[h].id)))
            /\ delivered' = delivered \cup {h}
    /\ pc' = [pc EXCEPT ![h] = "wait"]
    /\ UNCHANGED <<state, stdout_open, req, resp, rpc, rframe, nIn, hist>>

\* the flag the handler of h waits on
Signal(h) == IF req[h].kind = "getUnreadRSS" THEN data_update_event ELSE event[h]

\* Event.wait(timeout) returns True: the flag is set
WaitSignaled(h) ==
    /\ ~Exited /\ pc[h] = "wait"
    /\ Signal(h)
    /\ pc' = [pc EXCEPT ![h] = IF req[h].kind = "getUnreadRSS" THEN "read" ELSE "take"]
    /\ UNCHANGED <<state, channel, req, resp, rpc, rframe, nIn, hist>>

\* Event.wait(timeout) returns False: the timeout expires with the flag unset
wait_without_timeout(h) == FALSE
TimeoutExpires(h) == pc[h] = "wait" /\ ~Signal(h)

WaitTimeout(h) ==
    /\ ~Exited /\ TimeoutExpires(h)
    /\ pc' = [pc EXCEPT ![h] = IF req[h].kind = "getUnreadRSS" THEN "read_timeout" ELSE "cleanup"]
    /\ UNCHANGED <<state, channel, req, resp, rpc, rframe, nIn, hist>>

\* the responses of the success branches
MarkReadResponse(r) ==
    Response(IF r.data # 0 THEN "success" ELSE "failed", 200, "result", r.data, r.src)
ItemResponse(r) ==
    IF r.data # 0 THEN Response("success", 200, "result", r.data, r.src)
    ELSE Response("error", 404, "result", r.data, r.src)
FolderResponse(r) == Response("success", 200, "result", r.data, r.src)

\* success branch of a keyed handler: get_*_result, then the response
Take(h) ==
    /\ ~Exited /\ pc[h] = "take"
    /\ CASE req[h].kind = "markAsRead" ->
              /\ resp' = [resp EXCEPT ![h] = MarkReadResponse(get_mark_read_result(mark_read_results, req[h].id))]
              /\ mark_read_results' = TakeEntry(mark_read_results, req[h].id)
              /\ UNCHANGED <<single_item_results, folder_results>>
         [] req[h].kind = "getSingleItem" ->
              /\ resp' = [resp EXCEPT ![h] = ItemResponse(get_single_item_result(single_item_results, req[h].id))]
              /\ single_item_results' = TakeEntry(single_item_results, req[h].id)
              /\ UNCHANGED <<mark_read_results, folder_results>>
         [] req[h].kind = "getFolderItems" ->
              /\ resp' = [resp EXCEPT ![h] = FolderResponse(get_folder_result(folder_results, req[h].id))]
              /\ folder_results' = TakeEntry(folder_results, req[h].id)
              /\ UNCHANGED <<mark_read_results, single_item_results>>
    /\ pc' = [pc EXCEPT ![h] = "done"]
    /\ UNCHANGED <<latest_rss_data, data_update_event, event, channel, req, rpc, rframe, nIn, hist>>

\* timeout branch of a keyed handler: cleanup_*_request, then 504
Cleanup(h) ==
    /\ ~Exited /\ pc[h] = "cleanup"
    /\ CASE req[h].kind = "markAsRead" ->
              /\ mark_read_results' = cleanup_mark_read_request(mark_read_results, req[h].id)
              /\ UNCHANGED <<single_item_results, folder_results>>
         [] req[h].kind = "getSingleItem" ->
              /\ single_item_results' = cleanup_single_item_request(single_item_results, req[h].id)
              /\ UNCHANGED <<mark_read_results, folder_results>>
         [] req[h].kind = "getFolderItems" ->
              /\ folder_results' = cleanup_folder_request(folder_results, req[h].id)
              /\ UNCHANGED <<mark_read_results, single_item_results>>
    /\ resp' = [resp EXCEPT ![h] = TimedOut]
    /\ pc' = [pc EXCEPT ![h] = "done"]
    /\ UNCHANGED <<latest_rss_data, data_update_event, event, channel, req, rpc, rframe, nIn, hist>>

\* get_rss_data
get_rss_data == latest_rss_data
SnapshotSrc == [by |-> "snapshot", re |-> {}, key |-> NoId]

\* success branch of handle_get_unread
ReadUnread(h) ==
    /\ ~Exited /\ pc[h] = "read"
    /\ resp' = [resp EXCEPT ![h] = Response("success", 200, "result", get_rss_data, SnapshotSrc)]
    /\ pc' = [pc EXCEPT ![h] = "done"]
    /\ UNCHANGED <<state, channel, req, rpc, rframe, nIn, hist>>

\* timeout branch of handle_get_unread: the cached data with status "timeout"
ReadUnreadTimeout(h) ==
    /\ ~Exited /\ pc[h] = "read_timeout"
    /\ resp' = [resp EXCEPT ![h] = Response("timeout", 200, "timeout", get_rss_data, SnapshotSrc)]
    /\ pc' = [pc EXCEPT ![h] = "done"]
    /\ UNCHANGED <<state, channel, req, rpc, rframe, nIn, hist>>

(* ------------------------------------------------------------- main loop *)
KeyedTypes == {"markReadResult", "singleItemData", "folderData"}
KindOf(type) ==
    CASE type = "markReadResult" -> "markAsRead"
      [] type = "singleItemData" -> "getSingleItem"
      [] type = "folderData" -> "getFolderItems"
      [] type = "rssData" -> "getUnreadRSS"
      [] OTHER -> "none"

\* request h has put its whole frame on stdout, so the peer can answer it
Sent(h) == h \in delivered
Asked(type, id) == {h \in Requests : Sent(h) /\ req[h].kind = KindOf(type) /\ req[h].id = id}

\* the peer answers the requests for one key in the order it received them:
\* a message answers the oldest request for its key not answered yet, and no
\* request at all when every such request has had its answer
Pending(type, id) == Asked(type, id) \ answered
AnswerTo(type, id) ==
    IF Pending(type, id) = {} THEN {}
    ELSE {CHOOSE h \in Pending(type, id) : \A g \in Pending(type, id) : h <= g}

Message(type, id, data) == [type |-> type, id |-> id, data |-> data]
None == Message("None", NoId, 0)

\* what the peer can put on stdin next: a result message for a key it has been
\* asked about (once or again), an rssData message, the literal "ping", a
\* well-formed frame of any other shape ("other": a dict whose type is missing
\* or unknown, a string, a number, a list), the well-formed frame of the JSON
\* value null, a frame that does not decode, and end of stream.  A peer that has closed its end of stdout has gone: all that is
\* left to read is the end of the stream.
Inbound ==
    IF stdout_open
    THEN {m \in {Message(t, i, d) : t \in KeyedTypes, i \in Ids, d \in Data} : Asked(m.type, m.id) # {}}
         \cup {Message("rssData", NoId, d) : d \in Data}
         \cup {Message(t, NoId, 0) : t \in {"ping", "other", "null", "malformed", "eof"}}
    ELSE {Message("eof", NoId, 0)}

\* get_message: None at end of stream and, through its except clause, for a
\* frame whose read, decode or json.loads raises; json.loads of the frame null
\* is None as well
get_message(raw) == IF raw.type \in {"eof", "malformed", "null"} THEN None ELSE raw

\* threading.Event.set()
event_not_set(flag) == flag
SetEvent(flag) == TRUE

\* update_rss_data, the part under the lock: the snapshot it leaves
update_keeps_snapshot(snapshot, data) == snapshot
update_rss_data(snapshot, data) == data

\* the requests still in their wait window (registered, timeout not expired)
InWindow(h) == pc[h] \in {"send_len", "send_body", "wait"}

\* one iteration of the loop up to its first send_message (or to its end)
RouterRead ==
    /\ rpc = "read" /\ nIn < MaxInbound
    /\ \E raw \in Inbound :
        LET received_message == get_message(raw)
            msg_type == received_message.type
            re == AnswerTo(msg_type, received_message.id)
            src == [by |-> "reply", re |-> re, key |-> received_message.id]
            tbl == Table(KindOf(msg_type))
            owners == CompletedEvents(tbl, received_message.id)
        IN
        /\ nIn' = nIn + 1
        /\ answered' = answered \cup re
        /\ last_in' = raw.type
        /\ last_id' = raw.id
        /\ last_hit' = (msg_type \in KeyedTypes /\ owners # {})
        /\ CASE received_message = None ->
                  /\ rpc' = "exited"
                  /\ UNCHANGED <<state, rframe, rssHist, fired, heard, signalled>>
             [] msg_type = "rssData" ->
                  \* update_rss_data, the part under the lock
                  /\ latest_rss_data' = update_rss_data(latest_rss_data, received_message.data)
                  /\ rssHist' = Append(rssHist, received_message.data)
                  /\ rpc' = "rss_set"
                  /\ UNCHANGED <<data_update_event, mark_read_results, single_item_results,
                                 folder_results, event, rframe, fired, heard, signalled>>
             [] msg_type \in KeyedTypes ->
                  /\ mark_read_results' =
                        IF msg_type = "markReadResult"
                        THEN complete_mark_read_request(mark_read_results, received_message.id,
                                                        received_message.data, src)
                        ELSE mark_read_results
                  /\ single_item_results' =
                        IF msg_type = "singleItemData"
                        THEN complete_single_item_request(single_item_results, received_message.id,
                                                          received_message.data, src)
                        ELSE single_item_results
                  /\ folder_results' =
                        IF msg_type = "folderData"
                        THEN complete_folder_request(folder_results, received_message.id,
                                                     received_message.data, src)
                        ELSE folder_results
                  /\ event' = [h \in Requests |-> IF h \in owners THEN SetEvent(event[h]) ELSE event[h]]
                  /\ heard' = [h \in Requests |->
                                  IF req[h].kind = KindOf(msg_type) /\ InWindow(h)
                                  THEN heard[h] \cup {[key |-> received_message.id,
                                                       data |-> received_message.data,
                                                       hit |-> h \in owners]}
                                  ELSE heard[h]]
                  /\ signalled' = [h \in Requests |->
                                      IF h \in owners /\ ~event[h]
                                      THEN {received_message.data} ELSE signalled[h]]
                  /\ rframe' = StatusFrame("acknowledged")
                  /\ rpc' = "ack_len"
                  /\ UNCHANGED <<latest_rss_data, data_update_event, rssHist, fired>>
             [] msg_type = "ping" ->
                  /\ rframe' = LiteralFrame("pong")
                  /\ rpc' = "ack_len"
                  /\ UNCHANGED <<state, rssHist, fired, heard, signalled>>
             [] OTHER ->
                  /\ rpc' = "read"
                  /\ UNCHANGED <<state, rframe, rssHist, fired, heard, signalled>>
    /\ UNCHANGED <<channel, pc, req, resp>>

\* update_rss_data, after the lock is released: data_update_event.set()
RouterSet ==
    /\ rpc = "rss_set"
    /\ data_update_event' = SetEvent(data_update_event)
    /\ fired' = [h \in Requests |->
                    IF req[h].kind = "getUnreadRSS" /\ InWindow(h) /\ fired[h] = 0
                    THEN Len(rssHist) ELSE fired[h]]
    /\ rframe' = StatusFrame("received")
    /\ rpc' = "ack_len"
    /\ UNCHANGED <<latest_rss_data, mark_read_results, single_item_results, folder_results,
                   event, channel, pc, req, resp, nIn, rssHist, heard, signalled, last_in, last_id, last_hit,
                   answered>>

\* send_message of the main loop, in its two writes
RouterSendPrefix ==
    /\ rpc = "ack_len"
    /\ IF WriteRaises
       THEN /\ stdout' = stdout
            /\ rpc' = "read"
            /\ rframe' = NoFrame
       ELSE /\ stdout' = Write(stdout, PrefixChunk(rframe))
            /\ rpc' = "ack_body"
            /\ rframe' = rframe
    /\ UNCHANGED <<state, stdout_open, delivered, pc, req, resp, nIn, hist>>

RouterSendPayload ==
    /\ rpc = "ack_body"
    /\ stdout' = IF WriteRaises THEN stdout ELSE Write(stdout, PayloadChunk(rframe))
    /\ rpc' = "read"
    /\ rframe' = NoFrame
    /\ UNCHANGED <<state, stdout_open, delivered, pc, req, resp, nIn, hist>>

\* the peer closes its end of the pipe that stdout writes to: what was written
\* and not yet read is lost with the pipe
StdoutCloses ==
    /\ stdout_open /\ ~Exited
    /\ stdout_open' = FALSE
    /\ stdout' = <<>>
    /\ UNCHANGED <<state, delivered, pc, req, resp, rpc, rframe, nIn, hist>>

(* --------------------------------------------------------- specification *)
HandlerStep(h) ==
    \/ SendPrefix(h) \/ SendPayload(h)
    \/ WaitSignaled(h) \/ WaitTimeout(h)
    \/ Take(h) \/ Cleanup(h)
    \/ ReadUnread(h) \/ ReadUnreadTimeout(h)

RouterStep == RouterSet \/ RouterSendPrefix \/ RouterSendPayload

Next ==
    \/ \E h \in Requests : handle_mark_read(h)
    \/ \E h \in Requests : handle_get_item(h)
    \/ \E h \in Requests : handle_get_folder(h)
    \/ \E h \in Requests : handle_get_unread(h)
    \/ \E h \in Requests : SendPrefix(h)
    \/ \E h \in Requests : SendPayload(h)
    \/ \E h \in Requests : WaitSignaled(h)
    \/ \E h \in Requests : WaitTimeout(h)
    \/ \E h \in Requests : Take(h)
    \/ \E h \in Requests : Cleanup(h)
    \/ \E h \in Requests : ReadUnread(h)
    \/ \E h \in Requests : ReadUnreadTimeout(h)
    \/ RouterRead
    \/ RouterSet
    \/ RouterSendPrefix
    \/ RouterSendPayload
    \/ StdoutCloses

Spec == Init /\ [][Next]_vars

\* the threads are scheduled fairly and a timeout that can expire does expire;
\* nothing obliges the peer to write to stdin or a client to send a request
FairSpec ==
    /\ Spec
    /\ \A h \in Requests : WF_vars(HandlerStep(h))
    /\ WF_vars(RouterStep)

(* ================================================================ claims *)
Keyed(h) == req[h].kind \in KeyedKinds /\ req[h].id # NoId
Broadcast(h) == req[h].kind = "getUnreadRSS"
Returned(h) == pc[h] = "done"
SameKey(g, h) == req[g].kind = req[h].kind /\ req[g].id = req[h].id

\* the payloads of the replies that completed the waiter of h in its window
Matched(h) == {m.data : m \in {x \in heard[h] : x.hit}}

(* C1: when a keyed dispatch timed out and a later dispatch registers the    *)
(* same (kind, id), the later dispatch never returns the result of a reply    *)
(* the peer made to the earlier, timed-out request.                           *)
C1_NoStaleResult ==
    \A g \in Requests : \A h \in Requests :
        (/\ g < h /\ Keyed(g) /\ SameKey(g, h)
         /\ Returned(g) /\ resp[g].outcome = "timeout"
         /\ Returned(h) /\ resp[h].outcome = "result")
        => resp[h].src.re # {g}

(* C2: a keyed dispatch whose waiter is completed by a matching reply while   *)
(* it is registered and its timeout has not expired returns a result that     *)
(* carries that reply's payload, and does not time out.                       *)
C2_ReplyReturned ==
    \A h \in Requests :
        (Keyed(h) /\ Returned(h)) =>
            \A d \in Matched(h) : resp[h].outcome = "result" /\ resp[h].data = d

(* C3: after a keyed dispatch for (kind, id) has returned with a timeout and  *)
(* no other dispatch for the same (kind, id) is in flight, the table of that  *)
(* kind holds no entry for id.                                                *)
C3_NoLeftover ==
    \A h \in Requests :
        (/\ Keyed(h) /\ Returned(h) /\ resp[h].outcome = "timeout"
         /\ \A g \in Requests : (g # h /\ SameKey(g, h)) => ~InDispatch(g))
        => ~Has(Table(req[h].kind), req[h].id)

\* a mark-as-read dispatch has timed out with no reply at all and no other
\* request on its key is being handled
C3_Witness ==
    \E h \in Requests :
        /\ req[h].kind = "markAsRead" /\ Keyed(h) /\ Returned(h)
        /\ resp[h].outcome = "timeout" /\ heard[h] = {} /\ nIn = 0
        /\ \A g \in Requests : (g # h /\ SameKey(g, h)) => ~InDispatch(g)

(* C4 (as stated): every dispatch call, broadcast or keyed, eventually        *)
(* returns to its caller.                                                     *)
C4_AlwaysReturns == \A h \in Requests : InDispatch(h) ~> Returned(h)

(* C4 (amended): every dispatch call eventually returns to its caller, or     *)
(* the main loop has stopped and the process, with its daemon HTTP thread,    *)
(* has exited.                                                                *)
C4_ReturnsOrExit == \A h \in Requests : InDispatch(h) ~> (Returned(h) \/ Exited)

\* a keyed and a broadcast dispatch have both returned by timeout while the
\* peer never wrote a frame and the process is still running
C4_Witness ==
    /\ nIn = 0 /\ ~Exited
    /\ \E h \in Requests : Keyed(h) /\ Returned(h) /\ resp[h].outcome = "timeout"
    /\ \E h \in Requests : Broadcast(h) /\ Returned(h) /\ resp[h].outcome = "timeout"

\* the entries of a keyed table that a step adds, removes or changes
Changed(kind) ==
    {k \in Ids : \/ Has(Table(kind), k) # Has(Table(kind)', k)
                 \/ /\ Has(Table(kind), k) /\ Has(Table(kind)', k)
                    /\ Table(kind)[k] # Table(kind)'[k]}

C7_NoSpuriousWakeup ==
    \A h \in Requests :
        (Broadcast(h) /\ (pc[h] = "read" \/ (Returned(h) /\ resp[h].status = "success")))
        => fired[h] # 0

\* an earlier round fired the signal and succeeded; a later broadcast dispatch,
\* for which no update was processed, did not succeed on that stale signal
C7_Witness ==
    \E g \in Requests : \E h \in Requests :
        /\ g < h /\ Broadcast(g) /\ Broadcast(h)
        /\ Returned(g) /\ resp[g].status = "success"
        /\ Returned(h) /\ resp[h].status = "timeout" /\ fired[h] = 0

(* C8: the outbound stream is always a concatenation of whole frames, each a  *)
(* prefix directly followed by its own payload.                               *)
C8_FramesWhole == ~Torn(stdout)

(* C9: a dispatch blocked in its wait does not prevent the next request from  *)
(* entering dispatch.                                                         *)
C9_NotBlockedByWaiter ==
    \A h \in Requests : \A g \in Requests :
        (pc[h] = "wait" /\ NextInLine(g) /\ ~Exited) => CanStart(g)

(* C10: reading a frame that does not decode does not stop the main loop: it  *)
(* goes on to read the frames that follow.                                    *)
C10_MalformedSkipped == [][(nIn' # nIn /\ last_in' = "malformed") => rpc' = "read"]_vars

(* C11: whenever no dispatch call is in progress, the three keyed tables are  *)
(* empty: each dispatch removes the entry it registered on every way out, be  *)
(* it a result, a timeout, or a send_message that raised.                     *)
C11_IdleTablesEmpty ==
    ServerFree =>
        /\ mark_read_results = EmptyTable
        /\ single_item_results = EmptyTable
        /\ folder_results = EmptyTable

\* one keyed dispatch has returned a result and another, whose send_message
\* raised because stdout was closed, has returned by timeout; none is running
C11_Witness ==
    /\ ServerFree
    /\ \E g \in Requests : \E h \in Requests :
        /\ Keyed(g) /\ Returned(g) /\ resp[g].outcome = "result"
        /\ Keyed(h) /\ Returned(h) /\ resp[h].outcome = "timeout" /\ h \notin delivered

(* C12: a result message for (kind, id) processed while no waiter is          *)
(* registered under that key changes no keyed table, not the snapshot, and    *)
(* sets no Event; and a dispatch that registers starts from a fresh           *)
(* placeholder and an unset Event, so that a result it returns was stored by  *)
(* a message processed while it was waiting: it never sees the dropped one.   *)
C12_DroppedReplyIgnored ==
    [][ /\ (nIn' # nIn /\ last_in' \in KeyedTypes /\ ~Has(Table(KindOf(last_in')), last_id'))
           => (~last_hit' /\ UNCHANGED state)
        /\ \A h \in Requests :
            (pc[h] = "idle" /\ InDispatch(h)' /\ Keyed(h)') =>
                /\ \A kind \in KeyedKinds :
                     req'[h].kind = kind =>
                        Table(kind)'[req'[h].id] = [event |-> h, data |-> 0, src |-> Placeholder]
                /\ ~event'[h]
        /\ \A h \in Requests :
            (Keyed(h) /\ Returned(h) /\ resp[h].outcome = "result")'
            => (\E m \in heard'[h] : m.hit /\ m.key = req'[h].id)
      ]_vars

\* the last frame read was a result for a key nobody waited on; a dispatch that
\* registered that very key afterwards has heard nothing and has timed out
C12_Witness ==
    \E h \in Requests :
        /\ Keyed(h) /\ pc[h] = "cleanup" /\ heard[h] = {}
        /\ nIn > 0 /\ KindOf(last_in) = req[h].kind /\ last_id = req[h].id /\ ~last_hit

\* what get_*_result returns for a key that has no entry
AbsentDefault == [data |-> 0, src |-> Placeholder]

(* C13: get_*_result reads the stored result and removes the entry in one     *)
(* step: the value a dispatch returns is the one stored under its key, and a  *)
(* second get_*_result for the same (kind, id), with no registration and      *)
(* completion in between, returns the absent default and not that result.     *)
C13_TakenOnce ==
    [][ \A h \in Requests :
            (pc[h] = "take" /\ pc'[h] # "take") =>
                /\ ~Has(Table(req[h].kind)', req[h].id)
                /\ req[h].kind = "markAsRead" =>
                    /\ resp'[h].data = get_mark_read_result(mark_read_results, req[h].id).data
                    /\ get_mark_read_result(mark_read_results', req[h].id) = AbsentDefault
                /\ req[h].kind = "getSingleItem" =>
                    /\ resp'[h].data = get_single_item_result(single_item_results, req[h].id).data
                    /\ get_single_item_result(single_item_results', req[h].id) = AbsentDefault
                /\ req[h].kind = "getFolderItems" =>
                    /\ resp'[h].data = get_folder_result(folder_results, req[h].id).data
                    /\ get_folder_result(folder_results', req[h].id) = AbsentDefault
      ]_vars

\* a dispatch has taken and returned a stored result that differs from the
\* default, and its key has no entry any more
C13_Witness ==
    \E h \in Requests :
        /\ Keyed(h) /\ Returned(h) /\ resp[h].outcome = "result"
        /\ resp[h].src.by = "reply" /\ resp[h].data # AbsentDefault.data
        /\ ~Has(Table(req[h].kind), req[h].id)

\* the frame of the JSON string "pong"
Pong == [tag |-> "literal", val |-> "pong", id |-> NoId]

(* C14: on the literal "ping" the main loop calls send_message once, with the *)
(* literal "pong": it writes the prefix and the payload of that frame and     *)
(* then reads the next frame; from the read of the ping to the end of the     *)
(* send it changes no keyed table, not the snapshot and no Event, whatever    *)
(* waiters are registered.                                                    *)
C14_PingPong ==
    [][ /\ (nIn' # nIn /\ last_in' = "ping") =>
            /\ rpc' = "ack_len" /\ rframe' = Pong
            /\ UNCHANGED <<state, stdout>>
        /\ (last_in = "ping" /\ rpc # "read" /\ rpc' # rpc) =>
            /\ rpc \in {"ack_len", "ack_body"} /\ rframe = Pong
            /\ UNCHANGED state
            /\ (rpc = "ack_len" /\ stdout_open) =>
                /\ stdout' = Write(stdout, PrefixChunk(Pong))
                /\ rpc' = "ack_body" /\ rframe' = Pong
            /\ rpc = "ack_body" =>
                /\ stdout_open => stdout' = Write(stdout, PayloadChunk(Pong))
                /\ rpc' = "read"
      ]_vars

\* the main loop has answered a ping with a whole frame and is reading again,
\* while a keyed dispatch is waiting with its entry untouched
C14_Witness ==
    /\ last_in = "ping" /\ rpc = "read" /\ stdout_open /\ stdout = <<>>
    /\ \E h \in Requests :
        /\ Keyed(h) /\ pc[h] = "wait" /\ ~event[h]
        /\ Table(req[h].kind)[req[h].id].src = Placeholder

(* C16: when the wait of a keyed dispatch returns because its own Event was   *)
(* set, the value the dispatch then takes and returns is the value stored by  *)
(* the completion that set that Event: not the placeholder of a registration  *)
(* and not the absent default.                                                *)
C16_ReturnsSignalledValue ==
    \A h \in Requests :
        (Keyed(h) /\ Returned(h) /\ resp[h].outcome = "result") =>
            /\ resp[h].src.by = "reply"
            /\ resp[h].data \in signalled[h]

(* C17: the result of an entry is written at most once between registration   *)
(* and removal: once a completion has stored a result, a further result       *)
(* message for the same (kind, id) processed before the entry is taken does   *)
(* not change the stored result.                                              *)
C17_WrittenOnce ==
    [][ \A kind \in KeyedKinds : \A k \in Ids :
            (/\ nIn' # nIn
             /\ Has(Table(kind), k) /\ Table(kind)[k].src.by = "reply"
             /\ Has(Table(kind)', k))
            => Table(kind)'[k].data = Table(kind)[k].data
      ]_vars

\* the frames of {"status": "received"} and {"status": "acknowledged"}
Received == [tag |-> "status", val |-> "received", id |-> NoId]
Acknowledged == [tag |-> "status", val |-> "acknowledged", id |-> NoId]

C19_UnrecognizedSkipped ==
    [][ (nIn' # nIn /\ last_in' \in {"other", "null"}) =>
            /\ UNCHANGED <<state, stdout, rframe>>
            /\ rpc' = "read"
      ]_vars

(* C20: at end of stream the main loop stops, and after that no inbound       *)
(* message is processed and no acknowledgment is sent; end of stream is the   *)
(* only thing read from stdin that stops the loop.                            *)
C20_StopsOnlyAtEof ==
    [][ /\ nIn' # nIn => (Exited' <=> last_in' = "eof")
        /\ Exited => UNCHANGED <<state, stdout, rpc, rframe, nIn>>
      ]_vars

\* the payload of the n-th rssData message stored; before the first, the empty
\* list BridgeState starts with
StoredAt(n) == IF n = 0 THEN 0 ELSE rssHist[n]

(* C21: the snapshot always equals the payload of the most recent rssData     *)
(* message the main loop processed, or the initial empty list if there was    *)
(* none; no step but the main loop's processing of an rssData message changes *)
(* it, neither a step of a dispatch (succeeding or timing out) nor the        *)
(* processing of a keyed result; and a broadcast dispatch that times out      *)
(* returns the snapshot as cached at that moment, with status "timeout".      *)
C21_SnapshotIsLastUpdate ==
    /\ [](latest_rss_data = StoredAt(Len(rssHist)))
    /\ [][ /\ latest_rss_data' # latest_rss_data => (nIn' # nIn /\ last_in' = "rssData")
           /\ (nIn' # nIn /\ last_in' = "rssData") => latest_rss_data' = rssHist'[Len(rssHist')]
           /\ \A h \in Requests :
               (pc[h] = "read_timeout" /\ pc'[h] # pc[h]) =>
                   /\ resp'[h].status = "timeout"
                   /\ resp'[h].data = latest_rss_data
                   /\ resp'[h].data = StoredAt(Len(rssHist))
         ]_vars

\* a keyed dispatch has come and gone, an rssData message with a non-empty
\* payload has been stored, and a broadcast dispatch that started afterwards
\* has timed out and returned that payload as cached
C21_Witness ==
    \E g \in Requests : \E h \in Requests :
        /\ Keyed(g) /\ Returned(g)
        /\ Broadcast(h) /\ Returned(h) /\ resp[h].status = "timeout"
        /\ rssHist # <<>> /\ resp[h].data # 0
        /\ resp[h].data = latest_rss_data /\ fired[h] = 0

====
